---- MODULE Spec2Model ----
(***************************************************************************)
(* A model of backend/services/versionManager.js: the catalog cache        *)
(* (fetchNewAPI), the three-tier version discovery                         *)
(* (getLatestClientVersion), the version codec (extractVersionNumber),     *)
(* the patch planner (extractVersionDetails, canUseDifferentialUpdate,     *)
(* needsIntermediatePatches), the backward archive probe                   *)
(* (discoverAvailableVersions) and the file integrity check                *)
(* (computeFileChecksum, validateChecksum).                                *)
(*                                                                         *)
(* JavaScript strings are sequences of one-character strings, so that the  *)
(* regular expressions and parseInt of the codec are computed, not         *)
(* assumed.  A JavaScript value that may be null is a record               *)
(* [t |-> "null" | "str", s |-> characters].                               *)
(***************************************************************************)
EXTENDS Integers, Sequences, FiniteSets, TLC

VARIABLES
    platform,      \* what getOS() / getArch() answer in this process
    now,           \* Date.now(), in milliseconds since the process started
    apiCache,      \* module variable apiCache (line 11)
    apiCacheTime,  \* module variable apiCacheTime (line 12)
    call,          \* per caller: the position and locals of its async call
    fetchCount,    \* number of axios.get(NEW_API_URL) requests issued so far
    plan,          \* the planner run: inputs, position, results
    probe,         \* the discoverAvailableVersions run: locals, probes issued
    sum,           \* the validateChecksum run: arguments, stream, result
    codec,         \* the extractVersionNumber run: argument, result
    chain          \* the needsIntermediatePatches runs over three builds

\* the runs of the functions that touch no module state
unitRuns == <<sum, codec, chain>>

vars ==
    <<platform, now, apiCache, apiCacheTime, call, fetchCount, plan, probe,
      unitRuns>>

----------------------------------------------------------------------------
(* JavaScript values                                                        *)

Null == [t |-> "null", s |-> <<>>]

Str(chars) == [t |-> "str", s |-> chars]

\* !v for a value that is null or a string
Falsy(v) == v.t = "null" \/ v.s = <<>>

Truthy(v) == ~Falsy(v)

Digits == <<"0", "1", "2", "3", "4", "5", "6", "7", "8", "9">>

IsDigit(c) == \E d \in 1..10 : Digits[d] = c

DigitVal(c) == (CHOOSE d \in 1..10 : Digits[d] = c) - 1

\* the number of consecutive digits of s starting at position i
RECURSIVE DigitRun(_, _)
DigitRun(s, i) ==
    IF i <= Len(s) /\ IsDigit(s[i]) THEN 1 + DigitRun(s, i + 1) ELSE 0

\* the decimal value of the k characters of s starting at position i
RECURSIVE DigitsValue(_, _, _)
DigitsValue(s, i, k) ==
    IF k = 0 THEN 0
    ELSE 10 * DigitsValue(s, i, k - 1) + DigitVal(s[i + k - 1])

\* whether the characters of lit occur in s at position i
HasAt(s, i, lit) ==
    /\ i + Len(lit) - 1 <= Len(s)
    /\ \A k \in 1..Len(lit) : s[i + k - 1] = lit[k]

PwrExt == <<".", "p", "w", "r">>

\* String.prototype.endsWith
EndsWith(s, lit) == Len(s) >= Len(lit) /\ HasAt(s, Len(s) - Len(lit) + 1, lit)

\* `${n}` for an integer n
RECURSIVE NatToStr(_)
NatToStr(n) ==
    IF n < 10 THEN <<Digits[n + 1]>>
    ELSE NatToStr(n \div 10) \o <<Digits[(n % 10) + 1]>>

NumToStr(n) == IF n < 0 THEN <<"-">> \o NatToStr(0 - n) ELSE NatToStr(n)

\* `${n}.pwr`
PwrName(n) == NumToStr(n) \o PwrExt

----------------------------------------------------------------------------
(* Version codec                                                            *)

\* the positions where /v(\d+)/ can match: a "v" directly before a digit
VMatches(s) == {i \in 1..Len(s) : s[i] = "v" /\ DigitRun(s, i + 1) > 0}

\* the positions where /(\d+)\.pwr/ can match: a digit whose run of digits
\* is directly followed by ".pwr"
PwrMatches(s) ==
    {i \in 1..Len(s) : DigitRun(s, i) > 0 /\ HasAt(s, i + DigitRun(s, i), PwrExt)}

Min(S) == CHOOSE x \in S : \A y \in S : x <= y

Max(S) == CHOOSE x \in S : \A y \in S : x >= y

\* parseInt(s): leading blanks, an optional sign, then digits; NaN with no digit
SkipBlanks(s) == Min({i \in 1..(Len(s) + 1) : i > Len(s) \/ s[i] # " "})

ParseInt(s) ==
    LET b == SkipBlanks(s)
        signed == b <= Len(s) /\ s[b] \in {"-", "+"}
        d == IF signed THEN b + 1 ELSE b
        k == DigitRun(s, d)
        mag == DigitsValue(s, d, k)
    IN  [nan |-> k = 0,
         n |-> IF k = 0 THEN 0 ELSE IF signed /\ s[b] = "-" THEN 0 - mag ELSE mag]

\* extractVersionNumber without the "v<digits>" pattern of lines 173-176
extractVersionNumber_NoVPattern(version) ==
    IF Falsy(version) THEN 0
    ELSE LET s == version.s IN
         IF PwrMatches(s) # {}
         THEN LET i == Min(PwrMatches(s)) IN DigitsValue(s, i, DigitRun(s, i))
         ELSE LET p == ParseInt(s) IN IF p.nan THEN 0 ELSE p.n

extractVersionNumber(version) ==
    IF Falsy(version) THEN 0
    ELSE LET s == version.s IN
         IF VMatches(s) # {}
         THEN LET i == Min(VMatches(s)) IN DigitsValue(s, i + 1, DigitRun(s, i + 1))
         ELSE IF PwrMatches(s) # {}
         THEN LET i == Min(PwrMatches(s)) IN DigitsValue(s, i, DigitRun(s, i))
         ELSE LET p == ParseInt(s) IN IF p.nan THEN 0 ELSE p.n

----------------------------------------------------------------------------
(* Archive locator                                                          *)

BASE_PATCH_URL == "https://game-patches.hytale.com/patches"

\* a URL: either built by buildArchiveUrl from its path segments, or one
\* taken as given from a provider's payload (base = the given URL)
Url(base, os, arch, branch, seg, file) ==
    [base |-> base, os |-> os, arch |-> arch, branch |-> branch,
     seg |-> seg, file |-> file]

GivenUrl(u) == Url(u, "", "", "", "", <<>>)

NoUrl == GivenUrl("null")

buildArchiveUrl(buildNumber, branch) ==
    Url(BASE_PATCH_URL, platform.os, platform.arch, branch, "0",
        PwrName(buildNumber))

----------------------------------------------------------------------------
(* Platform inspector (../utils/platformUtils, outside this file): the      *)
(* answers getOS() and getArch() can give                                   *)

Platforms ==
    {[os |-> "windows", arch |-> "amd64"],
     [os |-> "linux", arch |-> "amd64"],
     [os |-> "darwin", arch |-> "arm64"]}

Branches == {"release", "pre-release"}

----------------------------------------------------------------------------
(* Catalog of the primary provider                                          *)

\* the characters of the words that occur in file names
Chars(word) ==
    CASE word = "windows" -> <<"w", "i", "n", "d", "o", "w", "s">>
      [] word = "linux" -> <<"l", "i", "n", "u", "x">>
      [] word = "darwin" -> <<"d", "a", "r", "w", "i", "n">>
      [] word = "amd64" -> <<"a", "m", "d", "6", "4">>
      [] word = "arm64" -> <<"a", "r", "m", "6", "4">>
      [] word = "readme.txt" -> <<"r", "e", "a", "d", "m", "e", ".", "t", "x", "t">>

\* `v${n}-${os}-${arch}.pwr`, the file names of the catalog
FileName(n, os, arch) ==
    <<"v">> \o NumToStr(n) \o <<"-">> \o Chars(os) \o <<"-">> \o Chars(arch) \o PwrExt

\* hytale[branch][osKey]: the keys (file names) of one sub-table
Table(branch, osKey, files) == [branch |-> branch, osKey |-> osKey, files |-> files]

\* response.data: nothing, or an object with or without the product key
\* `hytale`, whose value is a set of sub-tables
Catalog(id, tables) == [t |-> "body", hasKey |-> TRUE, id |-> id, tables |-> tables]

NoSnapshot == [t |-> "null", hasKey |-> FALSE, id |-> "", tables |-> {}]

BodyWithoutKey == [t |-> "body", hasKey |-> FALSE, id |-> "error page", tables |-> {}]

TablesFor(branch, builds) ==
    {Table(branch, "windows", {FileName(n, "windows", "amd64") : n \in builds}),
     Table(branch, "linux", {FileName(n, "linux", "amd64") : n \in builds}),
     Table(branch, "mac", {FileName(n, "darwin", "arm64") : n \in builds})}

CatalogOld == Catalog("old", TablesFor("release", {7, 8}))

CatalogNew ==
    Catalog("new", TablesFor("release", {8, 9, 10}) \cup TablesFor("pre-release", {11}))

\* a catalog whose release branch has a sub-table without archive for linux,
\* an empty one for windows and none for mac
CatalogBare ==
    Catalog("bare", {Table("release", "linux", {Chars("readme.txt")}),
                     Table("release", "windows", {})})

\* how the request to the primary provider can end
PrimaryOutcomes ==
    {[kind |-> "network error", data |-> NoSnapshot],
     [kind |-> "timeout", data |-> NoSnapshot],
     [kind |-> "response", data |-> NoSnapshot],
     [kind |-> "response", data |-> BodyWithoutKey],
     [kind |-> "response", data |-> CatalogOld],
     [kind |-> "response", data |-> CatalogNew],
     [kind |-> "response", data |-> CatalogBare]}

\* how the request to the legacy version endpoint can end: a rejection, or a
\* response whose client_version is null (no body, or no such field), empty
\* or a version string
LegacyOutcomes ==
    {[kind |-> "network error", client_version |-> Null],
     [kind |-> "response", client_version |-> Null],
     [kind |-> "response", client_version |-> Str(<<>>)],
     [kind |-> "response", client_version |-> Str(<<"v", "7">>)],
     [kind |-> "response", client_version |-> Str(<<"v", "8">>)]}

----------------------------------------------------------------------------
(* Catalog cache: fetchNewAPI                                               *)

API_CACHE_DURATION == 60000

\* how fetchNewAPI ends: which return or throw, with which snapshot
ApiResult(via, raised, snapshot) == [via |-> via, raised |-> raised, snapshot |-> snapshot]

\* line 18 with <= for <
CacheFresh_Inclusive(t) ==
    apiCache.t # "null" /\ (t - apiCacheTime) <= API_CACHE_DURATION

\* line 18, with `now` read at the call: the cached snapshot is fresh
CacheFresh(t) == apiCache.t # "null" /\ (t - apiCacheTime) < API_CACHE_DURATION

\* line 32: response.data && response.data.hytale
ValidPayload(outcome) ==
    outcome.kind = "response" /\ outcome.data.t = "body" /\ outcome.data.hasKey

\* the catch of fetchNewAPI without the fallback to the cached snapshot
ApiFailure_AlwaysThrow == ApiResult("throw", TRUE, NoSnapshot)

\* lines 40-47: the catch of fetchNewAPI
ApiFailure ==
    IF apiCache.t # "null" THEN ApiResult("stale", FALSE, apiCache)
    ELSE ApiResult("throw", TRUE, NoSnapshot)

\* fetchNewAPI keeping the snapshot that was cached first: a later valid
\* payload is returned but takes the path of the cached snapshot
ApiAnswer_FirstWriterWins(outcome) ==
    IF ValidPayload(outcome) /\ apiCache.t = "null"
    THEN ApiResult("fetched", FALSE, outcome.data)
    ELSE ApiFailure

\* fetchNewAPI after `await axios.get`, for the request of a call that read t
ApiAnswer(outcome) ==
    IF ValidPayload(outcome) THEN ApiResult("fetched", FALSE, outcome.data)
    ELSE ApiFailure

\* the module variables, apiCache and apiCacheTime, as a pair
Cached(snapshot, time) == [snapshot |-> snapshot, time |-> time]

\* a failed request dropping the cached snapshot
CacheAfter_ClearsOnFailure(t, outcome, r) ==
    IF r.via = "fetched" THEN Cached(outcome.data, t)
    ELSE Cached(NoSnapshot, 0)

\* a failed request that is answered from the cached snapshot restarting the
\* snapshot's freshness window
CacheAfter_RenewsOnStale(t, outcome, r) ==
    IF r.via = "fetched" THEN Cached(outcome.data, t)
    ELSE IF r.via = "stale" THEN Cached(apiCache, t)
    ELSE Cached(apiCache, apiCacheTime)

\* lines 33-34: the module variables once the request of a call that read
\* the clock at t has ended with r; only the valid payload is stored, with t
CacheAfter(t, outcome, r) ==
    IF r.via = "fetched" THEN Cached(outcome.data, t)
    ELSE Cached(apiCache, apiCacheTime)

----------------------------------------------------------------------------
(* Latest version of the primary provider: getLatestVersionFromNewAPI       *)

\* how a version lookup ends: a version, or an error
VersionResult(raised, version, error) ==
    [raised |-> raised, version |-> version, error |-> error]

\* the OS key without lines 57-59: 'darwin' looked up as it is
OsKey_NoMacAlias == platform.os

\* lines 56-59
OsKey == IF platform.os = "darwin" THEN "mac" ELSE platform.os

\* the build number of one file name, lines 74-77
FileBuild(name) ==
    IF VMatches(name) # {}
    THEN LET i == Min(VMatches(name)) IN DigitsValue(name, i + 1, DigitRun(name, i + 1))
    ELSE 0

\* getLatestVersionFromNewAPI once fetchNewAPI has ended with r
LatestVersionFrom(r, branch) ==
    IF r.raised THEN VersionResult(TRUE, Null, "fetch failed")
    ELSE LET found == {tb \in r.snapshot.tables : tb.branch = branch /\ tb.osKey = OsKey}
         IN  IF found = {} THEN VersionResult(TRUE, Null, "no data")
             ELSE LET osData == CHOOSE tb \in found : TRUE
                      versions == {k \in osData.files : EndsWith(k, PwrExt)}
                  IN  IF versions = {} THEN VersionResult(TRUE, Null, "no pwr")
                      ELSE VersionResult(FALSE,
                               Str(<<"v">> \o NumToStr(Max({FileBuild(k) : k \in versions}))),
                               "")

----------------------------------------------------------------------------
(* Version discovery: getLatestClientVersion                                *)

\* the fallback to the legacy endpoint without its try/catch (line 159)
LegacyAnswer_NoCatch(outcome) ==
    IF outcome.kind # "response"
    THEN [via |-> "throw", raised |-> TRUE, version |-> Null]
    ELSE IF Truthy(outcome.client_version)
    THEN [via |-> "legacy", raised |-> FALSE, version |-> outcome.client_version]
    ELSE [via |-> "default after invalid", raised |-> FALSE, version |-> Str(<<"v", "8">>)]

\* lines 143-163: the fallback to the legacy endpoint, given how its request
\* ended
LegacyAnswer(outcome) ==
    IF outcome.kind # "response"
    THEN [via |-> "default after error", raised |-> FALSE, version |-> Str(<<"v", "8">>)]
    ELSE IF Truthy(outcome.client_version)
    THEN [via |-> "legacy", raised |-> FALSE, version |-> outcome.client_version]
    ELSE [via |-> "default after invalid", raised |-> FALSE, version |-> Str(<<"v", "8">>)]

----------------------------------------------------------------------------
(* Calls of the three exported entry points.  A call runs without           *)
(* interruption from one await to the next; its frame keeps its locals.     *)
(* A call that has ended hands its result to its caller (Return) before     *)
(* any other callback runs: the awaiting caller resumes in a microtask.     *)

Ops == {"fetchNewAPI", "getLatestVersionFromNewAPI", "getLatestClientVersion"}

NoApiResult == ApiResult("none", FALSE, NoSnapshot)

NoVersionResult == VersionResult(FALSE, Null, "none")

NoOutcome == [kind |-> "none", data |-> NoSnapshot]

NoLegacyOutcome == [kind |-> "none", client_version |-> Null]

CallIdle ==
    [op |-> "none", pc |-> "idle", branch |-> "release", t |-> 0,
     fetched |-> FALSE, answer |-> NoOutcome, api |-> NoApiResult,
     primary |-> NoVersionResult, legacyAnswer |-> NoLegacyOutcome,
     tried |-> <<>>, via |-> "none", raised |-> FALSE, version |-> Null]

\* getLatestClientVersion asking the legacy endpoint whatever the primary
\* provider answered
AfterFetch_AlwaysLegacy(f, r) ==
    LET v == LatestVersionFrom(r, f.branch) IN
    CASE f.op = "fetchNewAPI" ->
            [f EXCEPT !.pc = "done", !.api = r, !.via = r.via, !.raised = r.raised]
      [] f.op = "getLatestVersionFromNewAPI" ->
            [f EXCEPT !.pc = "done", !.api = r, !.primary = v, !.via = "primary",
                      !.raised = v.raised, !.version = v.version]
      [] f.op = "getLatestClientVersion" ->
            [f EXCEPT !.pc = "await_legacy", !.api = r, !.primary = v,
                      !.tried = Append(@, "legacy")]

\* the rest of the call once its fetchNewAPI has ended with r: fetchNewAPI
\* itself is over; getLatestVersionFromNewAPI looks the version up and
\* rethrows; getLatestClientVersion returns the primary's version or
\* requests the legacy endpoint
AfterFetch(f, r) ==
    LET v == LatestVersionFrom(r, f.branch) IN
    CASE f.op = "fetchNewAPI" ->
            [f EXCEPT !.pc = "done", !.api = r, !.via = r.via, !.raised = r.raised]
      [] f.op = "getLatestVersionFromNewAPI" ->
            [f EXCEPT !.pc = "done", !.api = r, !.primary = v, !.via = "primary",
                      !.raised = v.raised, !.version = v.version]
      [] f.op = "getLatestClientVersion" ->
            IF v.raised
            THEN [f EXCEPT !.pc = "await_legacy", !.api = r, !.primary = v,
                           !.tried = Append(@, "legacy")]
            ELSE [f EXCEPT !.pc = "done", !.api = r, !.primary = v,
                           !.via = "primary", !.version = v.version]

\* the rest of getLatestClientVersion once the legacy request has ended
AfterLegacy(f, outcome) ==
    LET a == LegacyAnswer(outcome) IN
    [f EXCEPT !.pc = "done", !.legacyAnswer = outcome, !.via = a.via,
              !.raised = a.raised, !.version = a.version,
              !.tried = IF a.via = "legacy" THEN @ ELSE Append(@, "default")]

NumCallers == 2

Procs == 1..NumCallers

MaxFetches == 3

\* no ended call is waiting to hand over its result
Settled == \A p \in Procs : call[p].pc # "done"

TickStep == 30000

MaxTicks == 3

\* caller p calls one of ops with a branch: fetchNewAPI reads the clock and
\* either answers from the fresh cache, and the call runs on, or issues the
\* request and suspends
Invoke(p, ops) ==
    /\ Settled
    /\ call[p].pc = "idle"
    /\ fetchCount < MaxFetches
    /\ \E op \in ops :
       \E branch \in (IF op = "fetchNewAPI" THEN {"release"} ELSE Branches) :
          LET f == [CallIdle EXCEPT
                      !.op = op, !.branch = branch, !.t = now,
                      !.tried = IF op = "getLatestClientVersion"
                                THEN <<"primary">> ELSE <<>>] IN
          IF CacheFresh(now)
          THEN /\ call' = [call EXCEPT ![p] = AfterFetch(f, ApiResult("cache", FALSE, apiCache))]
               /\ fetchCount' = fetchCount
          ELSE /\ call' = [call EXCEPT ![p] = [f EXCEPT !.pc = "await_api", !.fetched = TRUE]]
               /\ fetchCount' = fetchCount + 1
    /\ UNCHANGED <<unitRuns, platform, now, apiCache, apiCacheTime, plan, probe>>

\* fetchNewAPI() is called
FetchNewAPICall(p) == Invoke(p, {"fetchNewAPI"})

\* getLatestVersionFromNewAPI(branch) or getLatestClientVersion(branch) is
\* called
LatestVersionCall(p) ==
    Invoke(p, {"getLatestVersionFromNewAPI", "getLatestClientVersion"})

\* the request of p's fetchNewAPI ends: a valid payload is cached with the
\* time read at the call; the call runs on (`response` is a local of
\* fetchNewAPI: the frame keeps it only when fetchNewAPI is the call itself)
ApiResponse(p) ==
    /\ Settled
    /\ call[p].pc = "await_api"
    /\ \E outcome \in PrimaryOutcomes :
          LET r == ApiAnswer(outcome) IN
          /\ apiCache' = CacheAfter(call[p].t, outcome, r).snapshot
          /\ apiCacheTime' = CacheAfter(call[p].t, outcome, r).time
          /\ call' = [call EXCEPT ![p] =
                        AfterFetch([call[p] EXCEPT
                                      !.answer = IF call[p].op = "fetchNewAPI"
                                                 THEN outcome ELSE @], r)]
    /\ UNCHANGED <<unitRuns, platform, now, fetchCount, plan, probe>>

\* the request of p's getLatestClientVersion to the legacy endpoint ends
LegacyResponse(p) ==
    /\ Settled
    /\ call[p].pc = "await_legacy"
    /\ \E outcome \in LegacyOutcomes :
          call' = [call EXCEPT ![p] = AfterLegacy(call[p], outcome)]
    /\ UNCHANGED <<unitRuns, platform, now, apiCache, apiCacheTime, fetchCount, plan, probe>>

\* the caller has its result and may call again
Return(p) ==
    /\ call[p].pc = "done"
    /\ call' = [call EXCEPT ![p] = CallIdle]
    /\ UNCHANGED <<unitRuns, platform, now, apiCache, apiCacheTime, fetchCount, plan, probe>>

\* time passes
Tick ==
    /\ Settled
    /\ now < MaxTicks * TickStep
    /\ now' = now + TickStep
    /\ UNCHANGED <<unitRuns, platform, apiCache, apiCacheTime, call, fetchCount, plan, probe>>

----------------------------------------------------------------------------
(* Patch manifest                                                           *)

\* A field of a manifest entry that is a URL or a text is a token; the
\* token "undefined" stands for a missing field and "" for an empty string.
\* `from` is <<>> when missing and <<n>> when the entry declares build n.
Entry(build, original_url, patch_url, patch_hash, from, proper_patch, patch_note) ==
    [build |-> build, original_url |-> original_url, patch_url |-> patch_url,
     patch_hash |-> patch_hash, from |-> from, proper_patch |-> proper_patch,
     patch_note |-> patch_note]

\* what patchInfo?.field reads when patchInfo is undefined (or is not an object)
UndefinedEntry ==
    Entry(0, "undefined", "undefined", "undefined", <<>>, FALSE, "undefined")

\* !x for a token
FalsyTok(x) == x \in {"undefined", "null", ""}

\* x || null for a token
OrNull(x) == IF FalsyTok(x) THEN "null" ELSE x

\* A manifest as fetchPatchManifest returns it: a mapping (a set of entries
\* with distinct builds) or, when the payload's `patches` is a string,
\* that string.
Mapping(entries) == [t |-> "mapping", entries |-> entries, s |-> <<>>]

EmptyMapping == Mapping({})

StringValue(chars) == [t |-> "string", entries |-> {}, s |-> chars]

\* The outcomes of the manifest request: the request fails; the response has
\* no body; the body has no (or a falsy) `patches`; the body's `patches` is p.
RequestError == [kind |-> "error", patches |-> EmptyMapping]

NoBody == [kind |-> "nobody", patches |-> EmptyMapping]

NoPatches == [kind |-> "nopatches", patches |-> EmptyMapping]

WithPatches(p) == [kind |-> "patches", patches |-> p]

\* how an async function ends: it returns a value or it raises
Returns(v) == [raised |-> FALSE, value |-> v]

Raises(v) == [raised |-> TRUE, value |-> v]

\* fetchPatchManifest without its try/catch: a failure propagates
fetchPatchManifest_NoCatch(resp) ==
    CASE resp.kind = "error" -> Raises(EmptyMapping)
      [] resp.kind = "nobody" -> Raises(EmptyMapping)
      [] resp.kind = "nopatches" -> Returns(EmptyMapping)
      [] resp.kind = "patches" ->
            IF resp.patches.t = "string" /\ resp.patches.s = <<>>
            THEN Returns(EmptyMapping)
            ELSE Returns(resp.patches)

\* fetchPatchManifest, given the outcome of its request.  The rejected
\* request and the TypeError of reading `patches` of a missing body are
\* both caught (line 227) and end in `return {}`; otherwise
\* `response.data.patches || {}`.
fetchPatchManifest(resp) ==
    CASE resp.kind = "error" -> Returns(EmptyMapping)
      [] resp.kind = "nobody" -> Returns(EmptyMapping)
      [] resp.kind = "nopatches" -> Returns(EmptyMapping)
      [] resp.kind = "patches" ->
            IF resp.patches.t = "string" /\ resp.patches.s = <<>>
            THEN Returns(EmptyMapping)
            ELSE Returns(resp.patches)

\* manifest[buildNumber], as far as its fields can be read: an entry of the
\* mapping, or nothing (a character of a string has none of the fields)
PatchInfo(manifest, buildNumber) ==
    IF manifest.t = "mapping" /\ \E e \in manifest.entries : e.build = buildNumber
    THEN CHOOSE e \in manifest.entries : e.build = buildNumber
    ELSE UndefinedEntry

HasEntry(manifest, buildNumber) ==
    manifest.t = "mapping" /\ \E e \in manifest.entries : e.build = buildNumber

\* patchInfo.from as a condition: missing and 0 are both falsy
FromDeclared(patchInfo) == patchInfo.from # <<>> /\ patchInfo.from[1] # 0

----------------------------------------------------------------------------
(* Patch planner                                                            *)

NullDetails ==
    [t |-> "null", version |-> Null, buildNumber |-> 0,
     fullUrl |-> NoUrl, differentialUrl |-> NoUrl, checksum |-> "null",
     sourceVersion |-> Null, isDifferential |-> FALSE, releaseNotes |-> "null"]

\* extractVersionDetails without the `previousBuild > 0` guard of line 247
extractVersionDetails_NoPositiveGuard(targetVersion, branch, manifest) ==
    LET buildNumber == extractVersionNumber(targetVersion)
        previousBuild == buildNumber - 1
        patchInfo == PatchInfo(manifest, buildNumber)
    IN  [t |-> "object",
         version |-> targetVersion,
         buildNumber |-> buildNumber,
         fullUrl |-> IF FalsyTok(patchInfo.original_url)
                     THEN buildArchiveUrl(buildNumber, branch)
                     ELSE GivenUrl(patchInfo.original_url),
         differentialUrl |-> GivenUrl(OrNull(patchInfo.patch_url)),
         checksum |-> OrNull(patchInfo.patch_hash),
         sourceVersion |-> IF FromDeclared(patchInfo)
                           THEN Str(PwrName(patchInfo.from[1]))
                           ELSE Str(PwrName(previousBuild)),
         isDifferential |-> patchInfo.proper_patch,
         releaseNotes |-> OrNull(patchInfo.patch_note)]

\* the object extractVersionDetails returns, once the manifest is there
\* (buildName, `HYTALE-Build-${buildNumber}`, is buildNumber again)
extractVersionDetails(targetVersion, branch, manifest) ==
    LET buildNumber == extractVersionNumber(targetVersion)
        previousBuild == buildNumber - 1
        patchInfo == PatchInfo(manifest, buildNumber)
    IN  [t |-> "object",
         version |-> targetVersion,
         buildNumber |-> buildNumber,
         fullUrl |-> IF FalsyTok(patchInfo.original_url)
                     THEN buildArchiveUrl(buildNumber, branch)
                     ELSE GivenUrl(patchInfo.original_url),
         differentialUrl |-> GivenUrl(OrNull(patchInfo.patch_url)),
         checksum |-> OrNull(patchInfo.patch_hash),
         sourceVersion |-> IF FromDeclared(patchInfo)
                           THEN Str(PwrName(patchInfo.from[1]))
                           ELSE IF previousBuild > 0
                                THEN Str(PwrName(previousBuild))
                                ELSE Null,
         isDifferential |-> patchInfo.proper_patch,
         releaseNotes |-> OrNull(patchInfo.patch_note)]

\* canUseDifferentialUpdate without the isDifferential guard (line 256)
canUseDifferentialUpdate_NoProperGuard(currentVersion, targetDetails) ==
    IF targetDetails.t = "null" THEN FALSE
    ELSE IF FalsyTok(targetDetails.differentialUrl.base) THEN FALSE
    ELSE IF Falsy(currentVersion) THEN FALSE
    ELSE extractVersionNumber(currentVersion)
            = extractVersionNumber(targetDetails.sourceVersion)

\* canUseDifferentialUpdate comparing the current build with the target's
\* build instead of the expected source build (line 261)
canUseDifferentialUpdate_TargetBuild(currentVersion, targetDetails) ==
    IF targetDetails.t = "null" THEN FALSE
    ELSE IF FalsyTok(targetDetails.differentialUrl.base) THEN FALSE
    ELSE IF ~targetDetails.isDifferential THEN FALSE
    ELSE IF Falsy(currentVersion) THEN FALSE
    ELSE extractVersionNumber(currentVersion) = targetDetails.buildNumber

canUseDifferentialUpdate(currentVersion, targetDetails) ==
    IF targetDetails.t = "null" THEN FALSE
    ELSE IF FalsyTok(targetDetails.differentialUrl.base) THEN FALSE
    ELSE IF ~targetDetails.isDifferential THEN FALSE
    ELSE IF Falsy(currentVersion) THEN FALSE
    ELSE LET currentBuild == extractVersionNumber(currentVersion)
             expectedSource == extractVersionNumber(targetDetails.sourceVersion)
         IN  currentBuild = expectedSource

\* the loop of needsIntermediatePatches: push `${i}.pwr` for i = from .. target
RECURSIVE IntermediatesFrom(_, _)
IntermediatesFrom(i, target) ==
    IF i <= target THEN <<PwrName(i)>> \o IntermediatesFrom(i + 1, target)
    ELSE <<>>

\* needsIntermediatePatches with its loop starting at current, not current + 1
needsIntermediatePatches_FromCurrent(currentVersion, targetVersion) ==
    IF Falsy(currentVersion) THEN <<>>
    ELSE IntermediatesFrom(extractVersionNumber(currentVersion),
                           extractVersionNumber(targetVersion))

\* needsIntermediatePatches jumping to the target in one step
needsIntermediatePatches_TargetOnly(currentVersion, targetVersion) ==
    IF Falsy(currentVersion) THEN <<>>
    ELSE LET current == extractVersionNumber(currentVersion)
             target == extractVersionNumber(targetVersion)
         IN  IF current < target THEN <<PwrName(target)>> ELSE <<>>

needsIntermediatePatches(currentVersion, targetVersion) ==
    IF Falsy(currentVersion) THEN <<>>
    ELSE LET current == extractVersionNumber(currentVersion)
             target == extractVersionNumber(targetVersion)
         IN  IntermediatesFrom(current + 1, target)

----------------------------------------------------------------------------
(* The update decision.  Its code lives in the launcher's update flow,      *)
(* outside this file; it is modelled from the specification's state machine *)
(* "decide how to update" (section 4.4).                                    *)

decideUpdate(currentVersion, targetDetails) ==
    IF Falsy(currentVersion) THEN "full"
    ELSE IF canUseDifferentialUpdate(currentVersion, targetDetails) THEN "delta"
    ELSE "chain"

\* what the selected path downloads, in order: the target's full archive,
\* the one delta, or the chain of full archives named by
\* needsIntermediatePatches
Download(kind, url, file) == [kind |-> kind, url |-> url, file |-> file]

downloads(path, currentVersion, targetDetails) ==
    CASE path = "full" -> <<Download("full", targetDetails.fullUrl, <<>>)>>
      [] path = "delta" -> <<Download("delta", targetDetails.differentialUrl, <<>>)>>
      [] path = "chain" ->
            LET steps == needsIntermediatePatches(currentVersion, targetDetails.version)
            IN  [k \in 1..Len(steps) |-> Download("archive", NoUrl, steps[k])]

----------------------------------------------------------------------------
(* Inputs of the planner run                                                *)

MaxBuild == 10

VName(n) == Str(<<"v">> \o NumToStr(n))

\* installed versions: none, empty, "v<n>", and some "<n>.pwr" and "<n>"
CurrentVersions ==
    {Null, Str(<<>>)}
    \cup {VName(n) : n \in 0..MaxBuild}
    \cup {Str(PwrName(7)), Str(NumToStr(5)), Str(<<"-", "5">>)}

TargetVersions ==
    {VName(1), VName(8), VName(MaxBuild), Str(PwrName(8)),
     Str(<<"v", "8", "-", "l", "i", "n", "u", "x", ".", "p", "w", "r">>),
     Str(<<"l", "a", "t", "e", "s", "t">>)}

\* the entries a manifest may hold for build 8
EntriesFor8 ==
    {Entry(8, ou, pu, ph, from, pp, "undefined") :
        ou \in {"undefined", "https://cdn/8-full.pwr"},
        pu \in {"undefined", "", "https://cdn/8-patch.pwr"},
        ph \in {"undefined", "9f86d081"},
        from \in {<<>>, <<5>>, <<7>>},
        pp \in BOOLEAN}

EntryFor7 ==
    Entry(7, "https://cdn/7-full.pwr", "https://cdn/7-patch.pwr", "60303ae2",
          <<6>>, TRUE, "notes for 7")

EntryFor1 ==
    Entry(1, "undefined", "https://cdn/1-patch.pwr", "undefined", <<>>, FALSE,
          "undefined")

\* an entry for the highest build whose `from` is 0
EntryForMax ==
    Entry(MaxBuild, "undefined", "undefined", "undefined", <<0>>, FALSE, "undefined")

ManifestResponses ==
    {RequestError, NoBody, NoPatches}
    \cup {WithPatches(Mapping({}))}
    \cup {WithPatches(StringValue(<<>>)),
          WithPatches(StringValue(<<"u", "n", "a", "v", "a", "i", "l", "a", "b", "l", "e">>))}
    \cup {WithPatches(Mapping({e})) : e \in EntriesFor8}
    \cup {WithPatches(Mapping({e, EntryFor7})) :
             e \in {x \in EntriesFor8 : x.proper_patch /\ x.patch_hash = "undefined"}}
    \cup {WithPatches(Mapping({EntryFor7})), WithPatches(Mapping({EntryFor1})),
          WithPatches(Mapping({EntryForMax}))}

----------------------------------------------------------------------------
(* The planner run: extractVersionDetails (which awaits fetchPatchManifest),*)
(* then canUseDifferentialUpdate, needsIntermediatePatches, the decision    *)

PlanIdle ==
    [pc |-> "idle", current |-> Null, target |-> Null, branch |-> "release",
     resp |-> NoPatches, manifest |-> EmptyMapping, raised |-> FALSE,
     details |-> NullDetails, arg |-> NullDetails, canDelta |-> FALSE,
     steps |-> <<>>, path |-> "none", downloads |-> <<>>]

\* extractVersionDetails is called and suspends at `await fetchPatchManifest`
ExtractVersionDetailsCall ==
    /\ plan.pc = "start"
    /\ plan' = [plan EXCEPT !.pc = "await_manifest"]
    /\ UNCHANGED <<unitRuns, platform, now, apiCache, apiCacheTime, call, fetchCount, probe>>

\* the manifest request completes with outcome resp; fetchPatchManifest
\* ends, and extractVersionDetails builds its result (or ends with what
\* the await raised)
ExtractVersionDetailsReturn ==
    /\ plan.pc = "await_manifest"
    /\ \E resp \in ManifestResponses :
          LET r == fetchPatchManifest(resp) IN
          plan' = IF r.raised
                  THEN [plan EXCEPT !.pc = "raised", !.resp = resp, !.raised = TRUE]
                  ELSE [plan EXCEPT
                          !.pc = "details",
                          !.resp = resp,
                          !.manifest = r.value,
                          !.details = extractVersionDetails(plan.target, plan.branch,
                                                            r.value)]
    /\ UNCHANGED <<unitRuns, platform, now, apiCache, apiCacheTime, call, fetchCount, probe>>

\* canUseDifferentialUpdate(current, details), or with no details at all
CanUseDifferentialUpdate ==
    /\ plan.pc = "details"
    /\ \E arg \in {plan.details, NullDetails} :
          plan' = [plan EXCEPT
                     !.pc = "checked",
                     !.arg = arg,
                     !.canDelta = canUseDifferentialUpdate(plan.current, arg)]
    /\ UNCHANGED <<unitRuns, platform, now, apiCache, apiCacheTime, call, fetchCount, probe>>

NeedsIntermediatePatches ==
    /\ plan.pc = "checked"
    /\ plan' = [plan EXCEPT
                  !.pc = "stepped",
                  !.steps = needsIntermediatePatches(plan.current, plan.target)]
    /\ UNCHANGED <<unitRuns, platform, now, apiCache, apiCacheTime, call, fetchCount, probe>>

DecideUpdate ==
    /\ plan.pc = "stepped"
    /\ plan' = [plan EXCEPT
                  !.pc = "decided",
                  !.path = decideUpdate(plan.current, plan.details),
                  !.downloads = downloads(decideUpdate(plan.current, plan.details),
                                          plan.current, plan.details)]
    /\ UNCHANGED <<unitRuns, platform, now, apiCache, apiCacheTime, call, fetchCount, probe>>

----------------------------------------------------------------------------
(* Archive probe: checkArchiveExists and discoverAvailableVersions          *)

\* how a HEAD request can end: a response with status 200, a response with
\* another 2xx status, a rejection for a status outside 2xx, a rejection
\* without response (network error, timeout)
ProbeOutcomes == {"200", "204", "404", "network error"}

\* checkArchiveExists, given the outcome of its HEAD request
checkArchiveExists(outcome) ==
    CASE outcome = "200" -> TRUE
      [] outcome = "204" -> FALSE      \* response.status === 200 is false
      [] OTHER -> FALSE                \* the rejection is caught (line 200)

DefaultMaxProbe == 50

\* the loop's lower limit, Math.max(1, latest - maxProbe)
ProbeFloor_NoClamp(latest, maxProbe) == latest - maxProbe

ProbeFloor(latest, maxProbe) == Max({1, latest - maxProbe})

\* the loop's condition, i >= Math.max(1, latest - maxProbe)
ProbeGoesOn(p) == p.i >= ProbeFloor(p.latest, p.maxProbe)

\* one evaluation of the loop's head with the locals p: either the next
\* HEAD request is issued and the function suspends, or it returns
ProbeLoopHead(p) ==
    IF ProbeGoesOn(p)
    THEN [p EXCEPT !.pc = "await_probe",
                   !.issued = Append(@, [build |-> p.i,
                                         url |-> buildArchiveUrl(p.i, p.branch)]),
                   !.outstanding = @ + 1]
    ELSE [p EXCEPT !.pc = "done", !.result = p.available]

\* the loop's body after the await, stopping the scan at the first miss
ProbeResume_StopAtMiss(p, outcome) ==
    LET exists == checkArchiveExists(outcome)
        q == [p EXCEPT !.answers = Append(@, outcome),
                       !.outstanding = @ - 1,
                       !.available = IF exists THEN Append(@, PwrName(p.i)) ELSE @,
                       !.i = @ - 1]
    IN  IF exists THEN ProbeLoopHead(q)
        ELSE [q EXCEPT !.pc = "done", !.result = q.available]

\* the loop's body after the await: push `${i}.pwr` if the archive exists,
\* i--, and the loop's head again
ProbeResume(p, outcome) ==
    LET exists == checkArchiveExists(outcome)
        q == [p EXCEPT !.answers = Append(@, outcome),
                       !.outstanding = @ - 1,
                       !.available = IF exists THEN Append(@, PwrName(p.i)) ELSE @,
                       !.i = @ - 1]
    IN  ProbeLoopHead(q)

MaxProbe == 5

MaxProbesPerRun == 6

\* latest known versions: none, empty, "v<n>", "<n>.pwr", a negative number
ProbeVersions ==
    {Null, Str(<<>>), VName(0), VName(1), VName(2), VName(3), VName(10),
     Str(PwrName(3)), Str(<<"-", "5">>)}

MaxProbeArgs == 0..MaxProbe \cup {DefaultMaxProbe}

\* the number of probes a run with these arguments issues
ProbesOf(latestKnown, maxProbe) ==
    LET latest == extractVersionNumber(latestKnown)
        floor == Max({1, latest - maxProbe})
    IN  IF latest >= floor THEN latest - floor + 1 ELSE 0

ProbeIdle ==
    [pc |-> "idle", latestKnown |-> Null, branch |-> "release", maxProbe |-> 0,
     latest |-> 0, i |-> 0, available |-> <<>>, issued |-> <<>>,
     answers |-> <<>>, outstanding |-> 0, result |-> <<>>]

\* discoverAvailableVersions(latestKnown, branch, maxProbe) is called and
\* runs to its first await (or to its return, when the loop does not start)
DiscoverAvailableVersionsCall ==
    /\ probe.pc = "start"
    /\ LET latest == extractVersionNumber(probe.latestKnown)
       IN  probe' = ProbeLoopHead([probe EXCEPT !.latest = latest, !.i = latest])
    /\ UNCHANGED <<unitRuns, platform, now, apiCache, apiCacheTime, call, fetchCount, plan>>

\* the HEAD request in flight ends; the loop continues to its next await
\* or to the return
ProbeAnswered ==
    /\ probe.pc = "await_probe"
    /\ \E outcome \in ProbeOutcomes : probe' = ProbeResume(probe, outcome)
    /\ UNCHANGED <<unitRuns, platform, now, apiCache, apiCacheTime, call, fetchCount, plan>>

----------------------------------------------------------------------------
(* File integrity: computeFileChecksum and validateChecksum                 *)

\* the files of the run, as their bytes; the stream delivers them one per
\* `data` event
FileContents == {<<>>, <<"a">>, <<"a", "b">>}

\* hash.digest('hex') once the bytes have been fed to the SHA-256 hash: the
\* digest in lowercase hexadecimal (its first eight characters)
Sha256Hex(bytes) ==
    CASE bytes = <<>> -> <<"e", "3", "b", "0", "c", "4", "4", "2">>
      [] bytes = <<"a">> -> <<"c", "a", "9", "7", "8", "1", "1", "2">>
      [] bytes = <<"a", "b">> -> <<"f", "b", "8", "e", "2", "0", "f", "c">>

\* a hexadecimal character in upper case
UpperHexChar(c) ==
    CASE c = "a" -> "A" [] c = "b" -> "B" [] c = "c" -> "C"
      [] c = "d" -> "D" [] c = "e" -> "E" [] c = "f" -> "F"
      [] OTHER -> c

UpperHex(s) == [k \in 1..Len(s) |-> UpperHexChar(s[k])]

\* the expectedChecksum arguments: none, empty, the digest of each file as
\* produced and in upper case, and a digest of no file
ExpectedChecksums ==
    {Null, Str(<<>>), Str(<<"0", "0", "0", "0", "0", "0", "0", "0">>)}
    \cup {Str(Sha256Hex(b)) : b \in FileContents}
    \cup {Str(UpperHex(Sha256Hex(b))) : b \in FileContents}

\* the comparison of line 295 made without regard to case
ChecksumEquals_IgnoreCase(actualChecksum, expectedChecksum) ==
    UpperHex(actualChecksum) = UpperHex(expectedChecksum.s)

\* actualChecksum === expectedChecksum (line 295)
ChecksumEquals(actualChecksum, expectedChecksum) ==
    actualChecksum = expectedChecksum.s

\* validateChecksum after `await computeFileChecksum`, which resolved with a
\* digest or rejected with the stream's error
validateChecksum(expectedChecksum, digest) ==
    IF digest.raised THEN [raised |-> TRUE, result |-> FALSE]
    ELSE [raised |-> FALSE, result |-> ChecksumEquals(digest.value, expectedChecksum)]

SumIdle ==
    [pc |-> "idle", file |-> <<>>, expected |-> Null, opened |-> FALSE,
     fed |-> <<>>, streamError |-> FALSE, result |-> FALSE, raised |-> FALSE]

\* validateChecksum(filePath, expectedChecksum) is called: it returns true at
\* once without an expected checksum (line 292); otherwise
\* computeFileChecksum creates the hash and the read stream and the call
\* suspends
ValidateChecksumCall ==
    /\ sum.pc = "start"
    /\ sum' = IF Falsy(sum.expected)
              THEN [sum EXCEPT !.pc = "done", !.result = TRUE]
              ELSE [sum EXCEPT !.pc = "reading", !.opened = TRUE]
    /\ UNCHANGED <<platform, now, apiCache, apiCacheTime, call, fetchCount, plan,
                   probe, codec, chain>>

\* the stream's `data` event: hash.update(data)
StreamData ==
    /\ sum.pc = "reading"
    /\ Len(sum.fed) < Len(sum.file)
    /\ sum' = [sum EXCEPT !.fed = Append(@, sum.file[Len(sum.fed) + 1])]
    /\ UNCHANGED <<platform, now, apiCache, apiCacheTime, call, fetchCount, plan,
                   probe, codec, chain>>

\* the stream's `end` event: the promise resolves with the digest, and
\* validateChecksum compares it
StreamEnd ==
    /\ sum.pc = "reading"
    /\ Len(sum.fed) = Len(sum.file)
    /\ LET r == validateChecksum(sum.expected, Returns(Sha256Hex(sum.fed)))
       IN  sum' = [sum EXCEPT !.pc = "done", !.result = r.result, !.raised = r.raised]
    /\ UNCHANGED <<platform, now, apiCache, apiCacheTime, call, fetchCount, plan,
                   probe, codec, chain>>

\* the stream's `error` event (no such file, a read error): the promise
\* rejects, and so does validateChecksum, which has no catch
StreamError ==
    /\ sum.pc = "reading"
    /\ LET r == validateChecksum(sum.expected, Raises(<<>>))
       IN  sum' = [sum EXCEPT !.pc = "done", !.streamError = TRUE,
                              !.result = r.result, !.raised = r.raised]
    /\ UNCHANGED <<platform, now, apiCache, apiCacheTime, call, fetchCount, plan,
                   probe, codec, chain>>

----------------------------------------------------------------------------
(* The codec run: extractVersionNumber applied to one argument              *)

MaxCodecBuild == 12

ZipExt == <<".", "z", "i", "p">>

\* an argument of extractVersionNumber, with the form it was written in and
\* the build number it was written from
CodecInput(form, n, version) == [form |-> form, n |-> n, version |-> version]

\* 'v<n>', 'v<n>-<os>-<arch>.<ext>', '<n>.<ext>' and '<n>'
WellFormedInputs ==
    {CodecInput("v", n, VName(n)) : n \in 0..MaxCodecBuild}
    \cup {CodecInput("v-os-arch.ext", n,
                     Str(<<"v">> \o NumToStr(n) \o <<"-">> \o Chars(pf.os)
                         \o <<"-">> \o Chars(pf.arch) \o ext)) :
             n \in 0..MaxCodecBuild, pf \in Platforms, ext \in {PwrExt, ZipExt}}
    \cup {CodecInput("n.ext", n, Str(NumToStr(n) \o ext)) :
             n \in 0..MaxCodecBuild, ext \in {PwrExt, ZipExt}}
    \cup {CodecInput("n", n, Str(NumToStr(n))) : n \in 0..MaxCodecBuild}

\* no version, the empty string, and strings that hold no build number
UnparseableInputs ==
    {CodecInput("null", 0, Null), CodecInput("empty", 0, Str(<<>>)),
     CodecInput("unparseable", 0, Str(<<"l", "a", "t", "e", "s", "t">>)),
     CodecInput("unparseable", 0, Str(<<"v">>)),
     CodecInput("unparseable", 0, Str(PwrExt)),
     CodecInput("unparseable", 0, Str(<<"x", "7">>)),
     CodecInput("unparseable", 0, Str(<<"-">>))}

\* strings that parseInt reads with a sign or after blanks
SignedInputs ==
    {CodecInput("signed", 5, Str(<<"-", "5">>)),
     CodecInput("signed", 3, Str(<<"+", "3">>)),
     CodecInput("signed", 7, Str(<<" ", "7">>)),
     CodecInput("signed", 12, Str(<<"-", "1", "2", ".", "z", "i", "p">>))}

CodecInputs == WellFormedInputs \cup UnparseableInputs \cup SignedInputs

CodecIdle == [pc |-> "idle", input |-> CodecInput("null", 0, Null), result |-> 0]

\* extractVersionNumber(version) is called and returns
ExtractVersionNumberCall ==
    /\ codec.pc = "start"
    /\ codec' = [codec EXCEPT !.pc = "done",
                              !.result = extractVersionNumber(codec.input.version)]
    /\ UNCHANGED <<platform, now, apiCache, apiCacheTime, call, fetchCount, plan,
                   probe, sum, chain>>

----------------------------------------------------------------------------
(* The chain run: needsIntermediatePatches over three builds a <= b <= c,   *)
(* from a to b, from b to c, and from a to c                                *)

MaxChainBuild == 5

\* a version with the build number it was written from
ChainVersion(n, version) == [n |-> n, version |-> version]

ChainVersions ==
    {ChainVersion(n, VName(n)) : n \in 0..MaxChainBuild}
    \cup {ChainVersion(n, Str(PwrName(n))) : n \in 0..MaxChainBuild}

ChainIdle ==
    [pc |-> "idle", a |-> ChainVersion(0, Null), b |-> ChainVersion(0, Null),
     c |-> ChainVersion(0, Null), first |-> <<>>, second |-> <<>>, whole |-> <<>>]

\* needsIntermediatePatches(a, b)
NeedsFirstLeg ==
    /\ chain.pc = "start"
    /\ chain' = [chain EXCEPT
                   !.pc = "first",
                   !.first = needsIntermediatePatches(chain.a.version, chain.b.version)]
    /\ UNCHANGED <<platform, now, apiCache, apiCacheTime, call, fetchCount, plan,
                   probe, sum, codec>>

\* needsIntermediatePatches(b, c)
NeedsSecondLeg ==
    /\ chain.pc = "first"
    /\ chain' = [chain EXCEPT
                   !.pc = "second",
                   !.second = needsIntermediatePatches(chain.b.version, chain.c.version)]
    /\ UNCHANGED <<platform, now, apiCache, apiCacheTime, call, fetchCount, plan,
                   probe, sum, codec>>

\* needsIntermediatePatches(a, c)
NeedsWhole ==
    /\ chain.pc = "second"
    /\ chain' = [chain EXCEPT
                   !.pc = "done",
                   !.whole = needsIntermediatePatches(chain.a.version, chain.c.version)]
    /\ UNCHANGED <<platform, now, apiCache, apiCacheTime, call, fetchCount, plan,
                   probe, sum, codec>>

----------------------------------------------------------------------------
(* Specification of the catalog cache: concurrent callers of fetchNewAPI    *)

Init ==
    /\ platform = [os |-> "linux", arch |-> "amd64"]
    /\ now = 0
    /\ apiCache = NoSnapshot
    /\ apiCacheTime = 0
    /\ call = [p \in Procs |-> CallIdle]
    /\ fetchCount = 0
    /\ sum = SumIdle
    /\ codec = CodecIdle
    /\ chain = ChainIdle
    /\ plan = PlanIdle
    /\ probe = ProbeIdle

Next ==
    \/ \E p \in Procs : FetchNewAPICall(p)
    \/ \E p \in Procs : ApiResponse(p)
    \/ \E p \in Procs : Return(p)
    \/ Tick

Spec == Init /\ [][Next]_vars

----------------------------------------------------------------------------
(* Specification of the version discovery: concurrent callers of            *)
(* getLatestVersionFromNewAPI and getLatestClientVersion                    *)

\* the callers that take part in the version discovery
NumVersionCallers == 1

VersionCallers == {p \in Procs : p <= NumVersionCallers}

InitVersion ==
    /\ platform \in Platforms
    /\ now = 0
    /\ apiCache = NoSnapshot
    /\ apiCacheTime = 0
    /\ call = [p \in Procs |-> CallIdle]
    /\ fetchCount = 0
    /\ sum = SumIdle
    /\ codec = CodecIdle
    /\ chain = ChainIdle
    /\ plan = PlanIdle
    /\ probe = ProbeIdle

NextVersion ==
    \/ \E p \in VersionCallers : LatestVersionCall(p)
    \/ \E p \in VersionCallers : ApiResponse(p)
    \/ \E p \in VersionCallers : LegacyResponse(p)
    \/ \E p \in VersionCallers : Return(p)
    \/ Tick

SpecVersion == InitVersion /\ [][NextVersion]_vars

----------------------------------------------------------------------------
(* Specification of the planner run                                         *)

InitPlan ==
    /\ platform \in Platforms
    /\ now = 0
    /\ apiCache = NoSnapshot
    /\ apiCacheTime = 0
    /\ call = [p \in Procs |-> CallIdle]
    /\ fetchCount = 0
    /\ sum = SumIdle
    /\ codec = CodecIdle
    /\ chain = ChainIdle
    /\ probe = ProbeIdle
    /\ \E current \in CurrentVersions, target \in TargetVersions, branch \in Branches :
          plan = [PlanIdle EXCEPT !.pc = "start", !.current = current,
                                  !.target = target, !.branch = branch]

NextPlan ==
    \/ ExtractVersionDetailsCall
    \/ ExtractVersionDetailsReturn
    \/ CanUseDifferentialUpdate
    \/ NeedsIntermediatePatches
    \/ DecideUpdate

SpecPlan == InitPlan /\ [][NextPlan]_vars

----------------------------------------------------------------------------
(* Specification of the probe run                                           *)

InitProbe ==
    /\ platform \in Platforms
    /\ now = 0
    /\ apiCache = NoSnapshot
    /\ apiCacheTime = 0
    /\ call = [p \in Procs |-> CallIdle]
    /\ fetchCount = 0
    /\ sum = SumIdle
    /\ codec = CodecIdle
    /\ chain = ChainIdle
    /\ plan = PlanIdle
    /\ \E latestKnown \in ProbeVersions, maxProbe \in MaxProbeArgs, branch \in Branches :
          /\ ProbesOf(latestKnown, maxProbe) <= MaxProbesPerRun
          /\ probe = [ProbeIdle EXCEPT !.pc = "start", !.latestKnown = latestKnown,
                                       !.branch = branch, !.maxProbe = maxProbe]

NextProbe ==
    \/ DiscoverAvailableVersionsCall
    \/ ProbeAnswered

SpecProbe == InitProbe /\ [][NextProbe]_vars

\* every HEAD request ends, with a response or with a rejection (axios
\* rejects after its timeout of 10 s), so the run is never left suspended
SpecProbeFair == SpecProbe /\ WF_vars(NextProbe)

----------------------------------------------------------------------------
(* Specification of the checksum run                                        *)

InitChecksum ==
    /\ platform = [os |-> "linux", arch |-> "amd64"]
    /\ now = 0
    /\ apiCache = NoSnapshot
    /\ apiCacheTime = 0
    /\ call = [p \in Procs |-> CallIdle]
    /\ fetchCount = 0
    /\ plan = PlanIdle
    /\ probe = ProbeIdle
    /\ codec = CodecIdle
    /\ chain = ChainIdle
    /\ \E file \in FileContents, expected \in ExpectedChecksums :
          sum = [SumIdle EXCEPT !.pc = "start", !.file = file, !.expected = expected]

NextChecksum ==
    \/ ValidateChecksumCall
    \/ StreamData
    \/ StreamEnd
    \/ StreamError

SpecChecksum == InitChecksum /\ [][NextChecksum]_vars

----------------------------------------------------------------------------
(* Specification of the codec run                                           *)

InitCodec ==
    /\ platform = [os |-> "linux", arch |-> "amd64"]
    /\ now = 0
    /\ apiCache = NoSnapshot
    /\ apiCacheTime = 0
    /\ call = [p \in Procs |-> CallIdle]
    /\ fetchCount = 0
    /\ plan = PlanIdle
    /\ probe = ProbeIdle
    /\ sum = SumIdle
    /\ chain = ChainIdle
    /\ \E input \in CodecInputs :
          codec = [CodecIdle EXCEPT !.pc = "start", !.input = input]

NextCodec == ExtractVersionNumberCall

SpecCodec == InitCodec /\ [][NextCodec]_vars

----------------------------------------------------------------------------
(* Specification of the chain run                                           *)

InitChain ==
    /\ platform = [os |-> "linux", arch |-> "amd64"]
    /\ now = 0
    /\ apiCache = NoSnapshot
    /\ apiCacheTime = 0
    /\ call = [p \in Procs |-> CallIdle]
    /\ fetchCount = 0
    /\ plan = PlanIdle
    /\ probe = ProbeIdle
    /\ sum = SumIdle
    /\ codec = CodecIdle
    /\ \E a \in ChainVersions, b \in ChainVersions, c \in ChainVersions :
          /\ a.n <= b.n
          /\ b.n <= c.n
          /\ chain = [ChainIdle EXCEPT !.pc = "start", !.a = a, !.b = b, !.c = c]

NextChain ==
    \/ NeedsFirstLeg
    \/ NeedsSecondLeg
    \/ NeedsWhole

SpecChain == InitChain /\ [][NextChain]_vars

----------------------------------------------------------------------------
(* Properties of the version discovery (SpecVersion)                        *)

V8 == Str(<<"v", "8">>)

\* the legacy request of a finished getLatestClientVersion gave a version
LegacyGaveVersion(f) ==
    /\ f.legacyAnswer.kind = "response"
    /\ f.legacyAnswer.client_version.t = "str"
    /\ f.legacyAnswer.client_version.s # <<>>

\* C1: getLatestClientVersion never fails: whatever the primary and the legacy
\* provider answer, it ends by returning a version string, and 'v8' when both
\* providers fail.
C1_AlwaysReturnsAVersion ==
    \A p \in Procs :
        call[p].op = "getLatestClientVersion" =>
            /\ ~call[p].raised
            /\ call[p].pc = "done" =>
                  /\ call[p].version.t = "str"
                  /\ call[p].version.s # <<>>
                  /\ (call[p].primary.raised /\ ~LegacyGaveVersion(call[p])) =>
                        call[p].version = V8

\* both providers failed, and 'v8' came back
C1_Witness ==
    \E p \in Procs :
        /\ call[p].op = "getLatestClientVersion"
        /\ call[p].pc = "done"
        /\ call[p].api.raised
        /\ call[p].legacyAnswer.kind = "network error"
        /\ call[p].version = V8

\* C2: the tiers are tried in the order primary, legacy, hard-coded default:
\* the legacy endpoint is requested only after the primary attempt of the same
\* call failed, 'v8' is returned only after the legacy attempt failed too (or
\* had no client_version), and the result comes from the first tier that
\* succeeded.
C2_TiersInOrder ==
    \A p \in Procs :
        call[p].op = "getLatestClientVersion" =>
            LET f == call[p] IN
            /\ f.tried \in {<<"primary">>, <<"primary", "legacy">>,
                            <<"primary", "legacy", "default">>}
            /\ f.pc = "await_api" => f.tried = <<"primary">>
            /\ f.pc = "await_legacy" <=> (f.tried = <<"primary", "legacy">> /\ f.pc # "done")
            /\ Len(f.tried) >= 2 => f.primary.raised
            /\ Len(f.tried) = 3 => (f.pc = "done" /\ ~LegacyGaveVersion(f))
            /\ f.pc = "done" =>
                  \/ /\ ~f.primary.raised
                     /\ f.tried = <<"primary">>
                     /\ f.version = f.primary.version
                  \/ /\ f.primary.raised
                     /\ LegacyGaveVersion(f)
                     /\ f.tried = <<"primary", "legacy">>
                     /\ f.version = f.legacyAnswer.client_version
                  \/ /\ f.primary.raised
                     /\ ~LegacyGaveVersion(f)
                     /\ f.tried = <<"primary", "legacy", "default">>
                     /\ f.version = V8

\* the primary had no data for the branch and the legacy endpoint answered v7
C2_Witness ==
    \E p \in Procs :
        /\ call[p].op = "getLatestClientVersion"
        /\ call[p].pc = "done"
        /\ call[p].primary.error = "no data"
        /\ call[p].tried = <<"primary", "legacy">>
        /\ call[p].version = Str(<<"v", "7">>)

----------------------------------------------------------------------------
(* Properties of the catalog cache (Spec)                                   *)

\* caller p calls fetchNewAPI in this step
Calls(p) == call[p].pc = "idle" /\ call'[p].pc # "idle"

\* a snapshot is cached and the clock is within 60 s of its time
InWindow == apiCache.t # "null" /\ now - apiCacheTime < 60000

\* C3: a call within the 60 s freshness window of the cached snapshot is
\* answered from it without a network fetch (two calls in the window: one
\* fetch); a call after the window has elapsed issues a new fetch.
C3_OneFetchPerWindow ==
    [][\A p \in Procs :
          Calls(p) =>
              IF InWindow
              THEN /\ fetchCount' = fetchCount
                   /\ call'[p].pc = "done"
                   /\ ~call'[p].raised
                   /\ call'[p].api.snapshot = apiCache
              ELSE /\ fetchCount' = fetchCount + 1
                   /\ call'[p].pc = "await_api"]_vars

\* a second call, 30 s after the one that fetched, answered from the cache
C3_Witness ==
    \E p \in Procs :
        /\ call[p].pc = "done"
        /\ call[p].api.via = "cache"
        /\ fetchCount = 1
        /\ now - apiCacheTime = 30000

\* the request of p ends in this step, and it failed: no response, or a
\* payload without the product key
FetchFails(p) ==
    /\ call[p].pc = "await_api"
    /\ call'[p].pc = "done"
    /\ \/ call'[p].answer.kind \in {"network error", "timeout"}
       \/ call'[p].answer.data.t = "null"
       \/ ~call'[p].answer.data.hasKey

\* C4: when the network fetch of fetchNewAPI fails, a cached snapshot, however
\* old, is returned and no error is raised; with no snapshot ever cached the
\* failure is propagated.
C4_StaleCacheOnFailure ==
    [][\A p \in Procs :
          FetchFails(p) =>
              IF apiCache.t # "null"
              THEN /\ ~call'[p].raised
                   /\ call'[p].api.snapshot = apiCache
              ELSE call'[p].raised]_vars

\* a timeout answered with a snapshot older than the window
C4_Witness ==
    \E p \in Procs :
        /\ call[p].pc = "done"
        /\ call[p].answer.kind = "timeout"
        /\ ~call[p].raised
        /\ call[p].api.snapshot = CatalogOld
        /\ now - apiCacheTime >= 90000

----------------------------------------------------------------------------
(* Properties of the planner run (SpecPlan)                                 *)

\* canUseDifferentialUpdate has been applied to the plan item that
\* extractVersionDetails built
DeltaJudged == plan.pc \in {"checked", "stepped", "decided"} /\ plan.arg.t = "object"

TargetBuild == extractVersionNumber(plan.target)

TargetEntry == PatchInfo(plan.manifest, TargetBuild)

\* C5: a delta is judged applicable only if the manifest entry of the target
\* build declares `from` and a patch URL and the current build equals that
\* `from`; an entry without `from` is never usable as a delta.
C5_DeltaOnlyFromDeclaredSource ==
    (DeltaJudged /\ plan.canDelta) =>
        /\ HasEntry(plan.manifest, TargetBuild)
        /\ TargetEntry.from # <<>>
        /\ ~FalsyTok(TargetEntry.patch_url)
        /\ extractVersionNumber(plan.current) = TargetEntry.from[1]

\* C6: canUseDifferentialUpdate is true exactly when the details are present,
\* have a delta URL, are marked a proper delta, a current version is supplied
\* and the parsed current build equals the parsed expected source build;
\* 'v5' against source build 5 is true, 'v4' against it is false.
C6_AllGuards ==
    /\ plan.arg.t = "object"
    /\ plan.arg.differentialUrl.base \notin {"undefined", "null", ""}
    /\ plan.arg.isDifferential
    /\ plan.current.t = "str" /\ plan.current.s # <<>>
    /\ extractVersionNumber(plan.current) = extractVersionNumber(plan.arg.sourceVersion)

C6_DeltaItemFrom5 ==
    /\ plan.arg.t = "object"
    /\ plan.arg.differentialUrl.base = "https://cdn/8-patch.pwr"
    /\ plan.arg.isDifferential
    /\ plan.arg.sourceVersion = Str(<<"5", ".", "p", "w", "r">>)

C6_CanUseIffAllGuards ==
    plan.pc \in {"checked", "stepped", "decided"} =>
        /\ plan.canDelta <=> C6_AllGuards
        /\ (C6_DeltaItemFrom5 /\ plan.current = Str(<<"v", "5">>)) => plan.canDelta
        /\ (C6_DeltaItemFrom5 /\ plan.current = Str(<<"v", "4">>)) => ~plan.canDelta

C6_Witness ==
    /\ plan.pc = "checked"
    /\ C6_DeltaItemFrom5
    /\ plan.current = Str(<<"v", "5">>)
    /\ plan.canDelta

\* C7: needsIntermediatePatches returns the empty sequence without a current
\* version, and otherwise exactly '<i>.pwr' for currentBuild < i <= targetBuild
\* in ascending order; ('v5', 'v8') gives 6.pwr, 7.pwr, 8.pwr.
C7_StepsAreTheBuildsAfterCurrent ==
    plan.pc \in {"stepped", "decided"} =>
        LET c == extractVersionNumber(plan.current)
            t == extractVersionNumber(plan.target)
        IN  /\ (plan.current.t = "null" \/ plan.current.s = <<>>) => plan.steps = <<>>
            /\ (plan.current.t = "str" /\ plan.current.s # <<>>) =>
                  /\ Len(plan.steps) = IF t > c THEN t - c ELSE 0
                  /\ \A k \in 1..Len(plan.steps) :
                        plan.steps[k] = NumToStr(c + k) \o <<".", "p", "w", "r">>
            /\ (plan.current = Str(<<"v", "5">>) /\ plan.target = Str(<<"v", "8">>)) =>
                  plan.steps = << <<"6", ".", "p", "w", "r">>,
                                  <<"7", ".", "p", "w", "r">>,
                                  <<"8", ".", "p", "w", "r">> >>

C7_Witness ==
    /\ plan.pc = "stepped"
    /\ plan.current = Str(<<"v", "5">>)
    /\ plan.target = Str(<<"v", "8">>)
    /\ Len(plan.steps) = 3

\* C9: the update decision selects exactly one of three paths: without a
\* current version the target's full archive only; with a current version
\* and an applicable delta the single delta; otherwise the chain of
\* needsIntermediatePatches in ascending order.  With target 'v8', an entry
\* for build 8 with proper_patch, from = 7 and a patch URL, and installed
\* 'v7', the delta path is selected.
C9_EndToEndCase ==
    /\ plan.target = Str(<<"v", "8">>)
    /\ plan.current = Str(<<"v", "7">>)
    /\ \E e \in plan.manifest.entries :
          /\ e.build = 8
          /\ e.proper_patch
          /\ e.from = <<7>>
          /\ e.patch_url = "https://cdn/8-patch.pwr"

C9_ExactlyOnePath ==
    plan.pc = "decided" =>
        LET noCurrent == plan.current.t = "null" \/ plan.current.s = <<>>
            applicable == canUseDifferentialUpdate(plan.current, plan.details)
        IN  /\ plan.path \in {"full", "delta", "chain"}
            /\ plan.path = "full" <=> noCurrent
            /\ plan.path = "delta" <=> (~noCurrent /\ applicable)
            /\ plan.path = "chain" <=> (~noCurrent /\ ~applicable)
            /\ plan.path = "full" =>
                  plan.downloads = <<Download("full", plan.details.fullUrl, <<>>)>>
            /\ plan.path = "delta" =>
                  plan.downloads =
                      <<Download("delta", plan.details.differentialUrl, <<>>)>>
            /\ plan.path = "chain" =>
                  /\ Len(plan.downloads) = Len(plan.steps)
                  /\ \A k \in 1..Len(plan.steps) :
                        plan.downloads[k] = Download("archive", NoUrl, plan.steps[k])
            /\ C9_EndToEndCase =>
                  /\ plan.path = "delta"
                  /\ plan.downloads =
                        <<Download("delta", GivenUrl("https://cdn/8-patch.pwr"), <<>>)>>

C9_Witness == plan.pc = "decided" /\ C9_EndToEndCase /\ plan.path = "delta"

\* the manifest request failed or its response was malformed
ManifestUnusable ==
    \/ plan.resp.kind \in {"error", "nobody", "nopatches"}
    \/ plan.resp.kind = "patches" /\ plan.resp.patches.t # "mapping"

\* the plan item of a build without manifest entry: the synthesized archive
\* URL, no delta URL, no checksum, not differential
FallbackItem ==
    /\ plan.details.fullUrl =
          [base |-> "https://game-patches.hytale.com/patches", os |-> platform.os,
           arch |-> platform.arch, branch |-> plan.branch, seg |-> "0",
           file |-> NumToStr(TargetBuild) \o <<".", "p", "w", "r">>]
    /\ plan.details.differentialUrl = NoUrl
    /\ plan.details.checksum = "null"
    /\ ~plan.details.isDifferential

\* C10 as stated: fetchPatchManifest never propagates a failure, returns an
\* empty mapping on any request error or malformed response, and a build
\* without entry gets the fallback item, for which no delta is applicable.
C10_EmptyMappingOnAnyFailure ==
    /\ plan.pc # "raised"
    /\ plan.pc \in {"details", "checked", "stepped", "decided"} =>
          /\ ManifestUnusable => plan.manifest = EmptyMapping
          /\ ~HasEntry(plan.manifest, TargetBuild) =>
                /\ FallbackItem
                /\ DeltaJudged => ~plan.canDelta

\* C10 as amended: fetchPatchManifest never propagates a failure; it returns
\* an empty mapping when the request fails, the response has no body or the
\* body has no truthy `patches` (a truthy `patches` is returned as it is,
\* whatever its shape); a build without entry in what it returned gets the
\* fallback item, for which no delta is applicable.
C10_NoFailureAndFallbackItem ==
    /\ plan.pc # "raised"
    /\ plan.pc \in {"details", "checked", "stepped", "decided"} =>
          /\ plan.resp.kind \in {"error", "nobody", "nopatches"} =>
                plan.manifest = EmptyMapping
          /\ (plan.resp.kind = "patches" /\ plan.resp.patches # StringValue(<<>>)) =>
                plan.manifest = plan.resp.patches
          /\ ~HasEntry(plan.manifest, TargetBuild) =>
                /\ FallbackItem
                /\ DeltaJudged => ~plan.canDelta

C10_Witness ==
    /\ plan.pc = "checked"
    /\ plan.resp.kind = "error"
    /\ plan.manifest = EmptyMapping
    /\ plan.arg.t = "object"
    /\ plan.current = Str(<<"v", "7">>)
    /\ plan.target = Str(<<"v", "8">>)
    /\ ~plan.canDelta

----------------------------------------------------------------------------
(* Properties of the probe run (SpecProbe)                                  *)

ProbeLatest == extractVersionNumber(probe.latestKnown)

ProbeLowest == IF ProbeLatest - probe.maxProbe > 1 THEN ProbeLatest - probe.maxProbe ELSE 1

\* the file names of the probes answered with status 200, in probing order
RECURSIVE AnsweredPresent(_)
AnsweredPresent(k) ==
    IF k = 0 THEN <<>>
    ELSE IF probe.answers[k] = "200"
         THEN Append(AnsweredPresent(k - 1),
                     NumToStr(probe.issued[k].build) \o <<".", "p", "w", "r">>)
         ELSE AnsweredPresent(k - 1)

\* C8: discoverAvailableVersions probes exactly the builds latest, latest-1,
\* ..., max(1, latest - maxProbe), one at a time in that order, does not stop
\* at a missing build, and returns exactly the probed builds that answered
\* 200, in probing order; a network error counts as absent.
C8_SequentialDescendingProbes ==
    /\ probe.outstanding \in {0, 1}
    /\ probe.outstanding = 1 <=> probe.pc = "await_probe"
    /\ Len(probe.answers) = Len(probe.issued) - probe.outstanding
    /\ \A k \in 1..Len(probe.issued) :
          /\ probe.issued[k].build = ProbeLatest - (k - 1)
          /\ probe.issued[k].build >= ProbeLowest
          /\ probe.issued[k].url =
                [base |-> "https://game-patches.hytale.com/patches",
                 os |-> platform.os, arch |-> platform.arch,
                 branch |-> probe.branch, seg |-> "0",
                 file |-> NumToStr(ProbeLatest - (k - 1)) \o <<".", "p", "w", "r">>]
    /\ probe.available = AnsweredPresent(Len(probe.answers))
    /\ probe.pc = "done" =>
          /\ Len(probe.issued) =
                IF ProbeLatest >= ProbeLowest THEN ProbeLatest - ProbeLowest + 1 ELSE 0
          /\ probe.result = AnsweredPresent(Len(probe.issued))
          /\ (probe.latestKnown = Str(<<"v", "1", "0">>) /\ probe.maxProbe = 5) =>
                [k \in 1..Len(probe.issued) |-> probe.issued[k].build]
                    = <<10, 9, 8, 7, 6, 5>>

\* a finished scan of v10 with maxProbe 5 that met a missing build and a
\* network error before a present one
C8_Witness ==
    /\ probe.pc = "done"
    /\ probe.latestKnown = Str(<<"v", "1", "0">>)
    /\ probe.maxProbe = 5
    /\ probe.answers = <<"200", "404", "network error", "200", "204", "200">>
    /\ probe.result = << <<"1", "0", ".", "p", "w", "r">>,
                         <<"7", ".", "p", "w", "r">>,
                         <<"5", ".", "p", "w", "r">> >>

----------------------------------------------------------------------------
(* Properties of the checksum run (SpecChecksum)                            *)

\* C11: validateChecksum is true without the file being read when no expected
\* checksum is given; with one given, it is true if the SHA-256 digest of the
\* file in lowercase hex equals it as produced and false otherwise; a
\* mismatch yields false and raises nothing (only a failing read stream
\* raises).
C11_TrueWithoutExpectedElseDigestMatch ==
    sum.pc = "done" =>
        /\ (sum.expected.t = "null" \/ sum.expected.s = <<>>) =>
              /\ sum.result
              /\ ~sum.raised
              /\ ~sum.opened
              /\ sum.fed = <<>>
        /\ (sum.expected.t = "str" /\ sum.expected.s # <<>> /\ ~sum.streamError) =>
              /\ ~sum.raised
              /\ sum.opened
              /\ sum.result <=> (Sha256Hex(sum.file) = sum.expected.s)
        /\ sum.raised <=> sum.streamError

\* the digest of the file in upper case does not match the digest as produced
C11_Witness ==
    /\ sum.pc = "done"
    /\ sum.file = <<"a", "b">>
    /\ sum.fed = <<"a", "b">>
    /\ sum.expected = Str(<<"F", "B", "8", "E", "2", "0", "F", "C">>)
    /\ ~sum.result
    /\ ~sum.raised

----------------------------------------------------------------------------
(* Properties of the codec run (SpecCodec)                                  *)

\* C12: extractVersionNumber returns n for 'v<n>', 'v<n>-<os>-<arch>.<ext>',
\* '<n>.<ext>' and a bare '<n>', and 0 for null, the empty string and
\* unparseable input; it always returns a number (it never raises).
C12_ParsesEveryForm ==
    codec.pc = "done" =>
        /\ codec.result \in Int
        /\ codec.input.form \in {"v", "v-os-arch.ext", "n.ext", "n"} =>
              codec.result = codec.input.n
        /\ codec.input.form \in {"null", "empty", "unparseable"} =>
              codec.result = 0

\* '12.zip', which only the bare-integer parse reads, gives 12
C12_Witness ==
    /\ codec.pc = "done"
    /\ codec.input.form = "n.ext"
    /\ codec.input.version = Str(<<"1", "2", ".", "z", "i", "p">>)
    /\ codec.result = 12

\* C13: every build number extractVersionNumber produces is a non-negative
\* integer, for every input string, those with a leading minus sign ('-5')
\* included.
C13_BuildNumbersNonNegative ==
    codec.pc = "done" => (codec.result \in Int /\ codec.result >= 0)

----------------------------------------------------------------------------
(* Properties of concurrent and repeated fetchNewAPI calls (Spec)           *)

\* the request of p ends in this step with a payload that has the product key
FetchSucceeds(p) ==
    /\ call[p].pc = "await_api"
    /\ call'[p].pc = "done"
    /\ call'[p].answer.kind = "response"
    /\ call'[p].answer.data.t = "body"
    /\ call'[p].answer.data.hasKey

\* p's call of fetchNewAPI ends in this step
Ends(p) == call[p].pc # "done" /\ call'[p].pc = "done"

\* C14: concurrent calls may each issue a request; every successful request
\* overwrites the cache, whichever snapshot is there (the last to complete
\* wins); the snapshot and its timestamp change only together, in the step
\* of one successful request, to that request's payload and that call's
\* clock reading.
C14_LastWriterWinsAtomically ==
    [][/\ \A p \in Procs :
             FetchSucceeds(p) =>
                 /\ apiCache' = call'[p].answer.data
                 /\ apiCacheTime' = call[p].t
                 /\ ~call'[p].raised
                 /\ call'[p].api.snapshot = call'[p].answer.data
       /\ (apiCache' # apiCache \/ apiCacheTime' # apiCacheTime) =>
             \E p \in Procs : FetchSucceeds(p)]_vars

\* caller 1, who read the clock at 0, is still waiting for its response
\* while the cache holds what a call made at 30000 fetched
C14_Witness ==
    /\ call[1].pc = "await_api"
    /\ call[1].t = 0
    /\ fetchCount = 2
    /\ apiCache = CatalogNew
    /\ apiCacheTime = 30000

\* C15: the cached snapshot is never cleared once set; from then on every
\* call of fetchNewAPI that ends returns a snapshot and raises nothing,
\* whatever the provider answers and however far the clock advances.
C15_CacheNeverCleared ==
    [][apiCache.t # "null" =>
          /\ apiCache'.t # "null"
          /\ \A p \in Procs :
                Ends(p) =>
                    /\ ~call'[p].raised
                    /\ call'[p].api.snapshot.t # "null"
                    /\ call'[p].api.snapshot \in {apiCache, apiCache'}]_vars

\* with a snapshot cached, a response without the product key was answered
\* from the cache, 90 s after the snapshot was fetched
C15_Witness ==
    \E p \in Procs :
        /\ call[p].pc = "done"
        /\ call[p].answer.data = BodyWithoutKey
        /\ call[p].api.via = "stale"
        /\ ~call[p].raised
        /\ apiCache = CatalogNew
        /\ now - apiCacheTime = 90000

\* the snapshot is older than the freshness window
Expired == apiCache.t # "null" /\ now - apiCacheTime >= 60000

\* C18: a failed request leaves the snapshot and its timestamp as they were,
\* so serving a stale snapshot does not renew the freshness window: every
\* call made after expiry issues a new request; and the cache holds only
\* payloads with the product key.
C18_FailedFetchChangesNothing ==
    [][/\ \A p \in Procs :
             FetchFails(p) =>
                 /\ apiCache' = apiCache
                 /\ apiCacheTime' = apiCacheTime
       /\ \A p \in Procs :
             (Calls(p) /\ Expired) =>
                 /\ call'[p].pc = "await_api"
                 /\ fetchCount' = fetchCount + 1
       /\ apiCache.t # "null" => apiCache.hasKey
       /\ apiCache'.t # "null" => apiCache'.hasKey]_vars

\* the snapshot fetched at 0 was served stale to a call made at 60000 whose
\* request timed out, and the window has not restarted
C18_Witness ==
    \E p \in Procs :
        /\ call[p].pc = "done"
        /\ call[p].t = 60000
        /\ call[p].answer.kind = "timeout"
        /\ call[p].api.via = "stale"
        /\ apiCache = CatalogOld
        /\ apiCacheTime = 0
        /\ fetchCount = 2

----------------------------------------------------------------------------
(* Properties of getLatestVersionFromNewAPI (SpecVersion)                   *)

\* the file names of the snapshot's sub-table for the branch and the OS key
\* of this platform ('mac' for darwin)
SubTables(snapshot, branch) ==
    {tb \in snapshot.tables :
        /\ tb.branch = branch
        /\ tb.osKey = (IF platform.os = "darwin" THEN "mac" ELSE platform.os)}

PwrFiles(snapshot, branch) ==
    {k \in UNION {tb.files : tb \in SubTables(snapshot, branch)} :
        /\ Len(k) >= 4
        /\ SubSeq(k, Len(k) - 3, Len(k)) = <<".", "p", "w", "r">>}

\* C16: getLatestVersionFromNewAPI(branch) returns 'v<m>', m the largest
\* build number in the '.pwr' file names of the sub-table for the branch and
\* the OS key ('mac' for darwin); it fails when the branch or the OS key is
\* absent and when the sub-table has no '.pwr' entry.
C16_LatestIsMaxOfSubTable ==
    \A p \in Procs :
        (call[p].op = "getLatestVersionFromNewAPI" /\ call[p].pc = "done") =>
            LET f == call[p]
                s == f.api.snapshot
                files == PwrFiles(s, f.branch)
                builds == {extractVersionNumber(Str(k)) : k \in files}
            IN  /\ f.api.raised => f.raised
                /\ (~f.api.raised /\ SubTables(s, f.branch) = {}) => f.raised
                /\ (~f.api.raised /\ SubTables(s, f.branch) # {} /\ files = {}) =>
                      f.raised
                /\ (~f.api.raised /\ files # {}) =>
                      /\ ~f.raised
                      /\ \E m \in builds :
                            /\ \A n \in builds : n <= m
                            /\ f.version = Str(<<"v">> \o NumToStr(m))
                /\ (~f.api.raised /\ s.id = "old") =>
                      IF f.branch = "release"
                      THEN f.version = Str(<<"v", "8">>)
                      ELSE f.raised
                /\ (~f.api.raised /\ s.id = "new") =>
                      f.version = IF f.branch = "release"
                                  THEN Str(<<"v", "1", "0">>)
                                  ELSE Str(<<"v", "1", "1">>)

\* on darwin, the latest pre-release build is read from the 'mac' sub-table
C16_Witness ==
    \E p \in Procs :
        /\ platform.os = "darwin"
        /\ call[p].op = "getLatestVersionFromNewAPI"
        /\ call[p].pc = "done"
        /\ call[p].branch = "pre-release"
        /\ call[p].api.snapshot = CatalogNew
        /\ ~call[p].raised
        /\ call[p].version = Str(<<"v", "1", "1">>)

----------------------------------------------------------------------------
(* Properties of the plan item's source version (SpecPlan)                  *)

\* extractVersionDetails has returned its plan item
DetailsBuilt == plan.pc \in {"details", "checked", "stepped", "decided"}

\* '<n>.pwr' as a version
SourceName(n) == [t |-> "str", s |-> NumToStr(n) \o <<".", "p", "w", "r">>]

\* C17 as stated: the plan item's source version is the entry's declared
\* `from` build when present, and otherwise targetBuild - 1, for every
\* target build, 0 and 1 included.
C17_SourceIsFromElsePrevious ==
    DetailsBuilt =>
        plan.details.sourceVersion =
            IF HasEntry(plan.manifest, TargetBuild) /\ TargetEntry.from # <<>>
            THEN SourceName(TargetEntry.from[1])
            ELSE SourceName(TargetBuild - 1)

\* C17 as amended: the source version is the entry's declared `from` build
\* when the entry has one other than 0; otherwise it is targetBuild - 1 when
\* that is a positive build, and null when it is not (target builds 0 and 1).
C17_SourceIsFromElsePositivePrevious ==
    DetailsBuilt =>
        plan.details.sourceVersion =
            IF /\ HasEntry(plan.manifest, TargetBuild)
               /\ TargetEntry.from # <<>>
               /\ TargetEntry.from[1] # 0
            THEN SourceName(TargetEntry.from[1])
            ELSE IF TargetBuild - 1 > 0
            THEN SourceName(TargetBuild - 1)
            ELSE [t |-> "null", s |-> <<>>]

\* the plan item of target 'v1', whose entry declares no `from`, has no
\* source version
C17_Witness ==
    /\ plan.pc = "details"
    /\ plan.target = Str(<<"v", "1">>)
    /\ HasEntry(plan.manifest, 1)
    /\ TargetEntry.from = <<>>
    /\ plan.details.sourceVersion.t = "null"

----------------------------------------------------------------------------
(* Properties of the probe run's length (SpecProbeFair)                     *)

\* max(0, latest - max(1, latest - maxProbe) + 1)
ProbesExpected ==
    IF ProbeLatest >= ProbeLowest THEN ProbeLatest - ProbeLowest + 1 ELSE 0

\* the build number of the k-th file name of the result
ResultBuild(k) == extractVersionNumber([t |-> "str", s |-> probe.result[k]])

ProbeRunBounded ==
    /\ Len(probe.issued) <= ProbesExpected
    /\ Len(probe.issued) <= probe.maxProbe + 1
    /\ probe.pc = "done" =>
          /\ Len(probe.issued) = ProbesExpected
          /\ ProbeLatest = 0 => (probe.issued = <<>> /\ probe.result = <<>>)
          /\ \A k \in 1..(Len(probe.result) - 1) : ResultBuild(k) > ResultBuild(k + 1)
          /\ \A j, k \in 1..Len(probe.result) :
                j # k => probe.result[j] # probe.result[k]

\* C19: discoverAvailableVersions always terminates, after at most
\* maxProbe + 1 probes: it issues exactly
\* max(0, latest - max(1, latest - maxProbe) + 1) probes, none (and an empty
\* result) when the latest known version parses to build 0, and its result
\* is strictly descending in build number, without duplicates.
C19_TerminatesAfterBoundedProbes ==
    /\ []ProbeRunBounded
    /\ <>(probe.pc = "done")

\* a scan of 'v3' with the default maxProbe: three probes, down to build 1
C19_Witness ==
    /\ probe.pc = "done"
    /\ probe.latestKnown = Str(<<"v", "3">>)
    /\ probe.maxProbe = 50
    /\ Len(probe.issued) = 3
    /\ probe.result = << <<"3", ".", "p", "w", "r">>,
                         <<"2", ".", "p", "w", "r">>,
                         <<"1", ".", "p", "w", "r">> >>

----------------------------------------------------------------------------
(* Properties of the chain run (SpecChain)                                  *)

\* C20: for builds a <= b <= c and a current version supplied, the steps
\* from a to b followed by the steps from b to c are the steps from a to c,
\* and there are c - a of them.
C20_StepsCompose ==
    chain.pc = "done" =>
        /\ chain.first \o chain.second = chain.whole
        /\ Len(chain.whole) = chain.c.n - chain.a.n
        /\ Len(chain.first) = chain.b.n - chain.a.n
        /\ Len(chain.second) = chain.c.n - chain.b.n

\* from 'v1' over '3.pwr' to 'v5': 2.pwr, 3.pwr and 4.pwr, 5.pwr
C20_Witness ==
    /\ chain.pc = "done"
    /\ chain.a.version = Str(<<"v", "1">>)
    /\ chain.b.version = Str(<<"3", ".", "p", "w", "r">>)
    /\ chain.c.version = Str(<<"v", "5">>)
    /\ chain.first = << <<"2", ".", "p", "w", "r">>, <<"3", ".", "p", "w", "r">> >>
    /\ chain.second = << <<"4", ".", "p", "w", "r">>, <<"5", ".", "p", "w", "r">> >>
    /\ Len(chain.whole) = 4

====
